---- MODULE Spec2Model ----
(***************************************************************************)
(* A model of the resilient extraction pipeline of leadAtomaticScraper:    *)
(*   main.py     scrape_jobs                                               *)
(*   scraper.py  is_blocked_text, load_proxies, fetch_full_description,    *)
(*               fetch_full_description_selenium,                          *)
(*               enrich_jobs_with_descriptions, scrape_jobs_selenium, main *)
(* Python strings are sequences of one-character strings, so that lower(), *)
(* strip(), split(), startswith() and the substring test are computed.     *)
(***************************************************************************)
EXTENDS Integers, Sequences, FiniteSets, TLC

VARIABLES
    prog,        \* which function is running ("enrich", "main", "selenium", ...)
    pc,          \* the position in that function
    result,      \* "running", "returned" or "raised": how the function was left
    proxies,     \* the list load_proxies() returned
    driver,      \* the local variable `driver`: NoDriver or a session handle
    unreleased,  \* drivers created, replaced, and never given a quit() call
    jobs,        \* enrich: the job dicts; walkers: the records appended so far
    idx,         \* the index of the job / entry / card being processed
    p,           \* the index of the proxy the rotation loop is at
    desc,        \* the local variable `desc`
    used_proxy,  \* the local variable `used_proxy` (0 = None)
    exc,         \* TRUE while an exception is propagating out of the function
    attempts,    \* history: the egress attempts made for the current job
    job_links,   \* main.py: the hrefs collected from the search page
    max_jobs,    \* main.py: min(env_max, len(job_links))
    windows,     \* main.py: the handles of the open windows (0: the search window)
    focus,       \* main.py: the handle the driver is switched to (may be closed)
    new_handle,  \* main.py: the local variable `new_handle`
    faulted,     \* history: the entries during which the environment raised
    skipped,     \* history: the entries reported as skipped, in order
    extraction,  \* history: the page last extracted from, the candidates tried, and
                 \* whether fetch_full_description_selenium was called for it
    view,        \* selenium: the page the current session shows
    cards,       \* selenium: the cards find_elements returned, cut to max_results
    on_results,  \* selenium: the session still shows the page the cards are from
    SELENIUM_AVAILABLE,  \* scraper.py: whether the import of selenium succeeded
    top,         \* scraper.py main(): the position of the frame that called `prog`
    arg,         \* the argument the function was called with (enrich: the jobs)
    ret,         \* the value that function returned
    delayed,     \* history: the entries after which the delay between entries was taken
    origin,      \* history: for each record, the index of the entry it was made from
    enumerated   \* history: the number of entries found and the cap they were cut to

enrich_vars == <<proxies, unreleased, p, desc, used_proxy, attempts>>
main_vars == <<job_links, max_jobs, windows, focus, new_handle, faulted, skipped>>

sel_vars == <<view, cards, on_results>>
call_vars == <<SELENIUM_AVAILABLE, top, arg, ret>>
hist_vars == <<delayed, origin, enumerated>>

vars == <<prog, pc, result, driver, jobs, idx, exc, extraction, enrich_vars, main_vars,
          sel_vars, call_vars, hist_vars>>

----------------------------------------------------------------------------
(* Bounds of the model *)

MaxProxies == 2
MaxJobs == 2

----------------------------------------------------------------------------
(* Python values *)

\* None, as a value of the type of the strings
None == <<"None">>
\* the marker of a lookup or call that raised
Raises == <<"Raises">>

Truthy(s) == s # None /\ s # <<>>

IsSpace(c) == c \in {" ", "\n", "\t"}

UPPER == <<"A","B","C","D","E","F","G","H","I","J","K","L","M",
           "N","O","P","Q","R","S","T","U","V","W","X","Y","Z">>
LOWER == <<"a","b","c","d","e","f","g","h","i","j","k","l","m",
           "n","o","p","q","r","s","t","u","v","w","x","y","z">>

UpperCase == {UPPER[i] : i \in 1..26}

lower_char(c) ==
    IF c \in UpperCase THEN LOWER[CHOOSE i \in 1..26 : UPPER[i] = c] ELSE c

\* str.lower()
lower(s) == [i \in 1..Len(s) |-> lower_char(s[i])]

\* `needle in hay`
contains(hay, needle) ==
    \E i \in 1..(Len(hay) - Len(needle) + 1) :
        \A j \in 1..Len(needle) : hay[i + j - 1] = needle[j]

\* str.startswith()
startswith(s, prefix) ==
    Len(s) >= Len(prefix) /\ SubSeq(s, 1, Len(prefix)) = prefix

\* str.strip(): from the first to the last character that is no whitespace
strip(s) ==
    IF \A i \in 1..Len(s) : IsSpace(s[i]) THEN <<>>
    ELSE LET n == Len(s)
             first == CHOOSE i \in 1..n :
                         ~IsSpace(s[i]) /\ \A j \in 1..(i - 1) : IsSpace(s[j])
             back == CHOOSE k \in 1..n :
                         ~IsSpace(s[n + 1 - k]) /\ \A j \in 1..(k - 1) : IsSpace(s[n + 1 - j])
         IN SubSeq(s, first, n + 1 - back)

\* every run of whitespace replaced by one space (by halves)
RECURSIVE collapse(_)
collapse(s) ==
    IF Len(s) = 0 THEN <<>>
    ELSE IF Len(s) = 1 THEN (IF IsSpace(s[1]) THEN <<" ">> ELSE s)
    ELSE LET half == Len(s) \div 2
             a == collapse(SubSeq(s, 1, half))
             b == collapse(SubSeq(s, half + 1, Len(s)))
         IN IF a[Len(a)] = " " /\ b[1] = " " THEN a \o Tail(b) ELSE a \o b

\* ' '.join(s.split()): the words of s, one space between them
join_split(s) == strip(collapse(s))

\* a slice that cuts nothing
take_all(s, n) == s

\* s[:n]
take(s, n) == IF Len(s) <= n THEN s ELSE SubSeq(s, 1, n)

----------------------------------------------------------------------------
(* scraper.py: is_blocked_text *)

blocks == <<
    <<"c","a","p","t","c","h","a">>,
    <<"v","e","r","i","f","y">>,
    <<"u","n","u","s","u","a","l"," ","t","r","a","f","f","i","c">>,
    <<"a","c","c","e","s","s"," ","d","e","n","i","e","d">>,
    <<"r","o","b","o","t"," ","c","h","e","c","k">>,
    <<"a","r","e"," ","y","o","u"," ","a"," ","r","o","b","o","t">> >>

\* a detector that looks for the markers in the text as it is written
is_blocked_text_as_written(text) ==
    IF ~Truthy(text) THEN TRUE
    ELSE \E b \in 1..Len(blocks) : contains(text, blocks[b])

is_blocked_text(text) ==
    IF ~Truthy(text) THEN TRUE
    ELSE \E b \in 1..Len(blocks) : contains(lower(text), blocks[b])

----------------------------------------------------------------------------
(* The pages a navigation can be answered with.  get: whether driver.get   *)
(* raises; sel: for each of the four description selectors the text of the *)
(* element found, or Raises when the wait times out; body: the text of the *)
(* body element; err: str(e) of the exception a failing call raises.       *)

repeat(c, n) == [i \in 1..n |-> c]

JOB_TEXT == <<" "," ","B","u","i","l","d"," "," ","d","a","t","a","\n","p","i","p",
              "e","l","i","n","e","s"," ","i","n"," ","P","y","t","h","o","n","."," "," ">>
CHALLENGE_TEXT ==
    <<"P","l","e","a","s","e"," ","V","e","r","i","f","y"," ","y","o","u"," ",
      "a","r","e"," ","h","u","m","a","n","."," ">> \o repeat("~", 200)
DENIED_TEXT == <<"A","c","c","e","s","s"," ","D","e","n","i","e","d">>
TIMEOUT_MESSAGE == <<"t","i","m","e","o","u","t">>

Page(name) ==
    CASE name = "job" ->
           [get |-> "ok", sel |-> <<JOB_TEXT, Raises, Raises, Raises>>,
            body |-> JOB_TEXT, err |-> TIMEOUT_MESSAGE]
      [] name = "challenge" ->
           [get |-> "ok", sel |-> <<Raises, Raises, Raises, Raises>>,
            body |-> CHALLENGE_TEXT, err |-> TIMEOUT_MESSAGE]
      [] name = "denied" ->
           [get |-> "ok", sel |-> <<Raises, DENIED_TEXT, Raises, Raises>>,
            body |-> DENIED_TEXT, err |-> TIMEOUT_MESSAGE]
      [] name = "unreachable" ->
           [get |-> "raise", sel |-> <<Raises, Raises, Raises, Raises>>,
            body |-> Raises, err |-> TIMEOUT_MESSAGE]

PageNames == {"job", "challenge", "denied", "unreachable"}

----------------------------------------------------------------------------
(* scraper.py: fetch_full_description_selenium *)

HTTP == <<"h","t","t","p">>
NO_VALID_URL ==
    <<"N","o"," ","v","a","l","i","d"," ","U","R","L"," ","t","o"," ","f","e","t",
      "c","h"," ","d","e","s","c","r","i","p","t","i","o","n">>
NOT_FOUND_SELENIUM ==
    <<"D","e","s","c","r","i","p","t","i","o","n"," ","n","o","t"," ","f","o","u",
      "n","d"," ","o","r"," ","p","a","g","e"," ","b","l","o","c","k","e","d"," ",
      "(","s","e","l","e","n","i","u","m",")">>
ERROR_SELENIUM ==
    <<"E","r","r","o","r"," ","f","e","t","c","h","i","n","g"," ","d","e","s","c",
      "r","i","p","t","i","o","n"," ","w","i","t","h"," ","s","e","l","e","n","i",
      "u","m",":"," ">>

MIN_ELEMENT_TEXT == 20
MIN_BODY_TEXT == 200
MAX_BODY_TEXT == 10000

\* the loop over the selectors: the first element whose stripped text is longer
\* than 20 characters; None when the loop falls through
RECURSIVE first_description(_, _)
first_description(sel, i) ==
    IF i > Len(sel) THEN None
    ELSE IF sel[i] # Raises /\ Len(strip(sel[i])) > MIN_ELEMENT_TEXT
         THEN join_split(strip(sel[i]))
         ELSE first_description(sel, i + 1)

\* live: whether the session behind `driver` still answers (quit() not called)
fetch_full_description_selenium(url, page, live) ==
    IF ~Truthy(url) \/ ~startswith(url, HTTP) THEN NO_VALID_URL
    ELSE IF ~live \/ page.get = "raise" THEN ERROR_SELENIUM \o page.err
    ELSE LET found == first_description(page.sel, 1) IN
         IF found # None THEN found
         ELSE IF page.body = Raises THEN ERROR_SELENIUM \o page.err
         ELSE LET body_text == strip(page.body) IN
              IF Len(body_text) > MIN_BODY_TEXT
              THEN take(join_split(body_text), MAX_BODY_TEXT)
              ELSE NOT_FOUND_SELENIUM

----------------------------------------------------------------------------
(* Sessions.  A handle records the egress it was created with (0: direct,  *)
(* i: proxies[i]) and whether quit() has been called on it.                *)

NoDriver == [egress |-> -1, quit |-> FALSE]

\* `enumerated` before the entries are collected, and a cap that was not read
NotRead == -1
NotEnumerated == [found |-> NotRead, max |-> NotRead]

\* scraper.py: create_selenium_driver(proxy=...), when it does not raise
create_selenium_driver(egress) == [egress |-> egress, quit |-> FALSE]

\* a quit() that is never called
quit_not_called(d) == d

\* driver.quit(); the call may itself raise, which every caller swallows
quit(d) == IF d = NoDriver THEN d ELSE [d EXCEPT !.quit = TRUE]

\* a session answers until quit() is called on it
Live(d) == d # NoDriver /\ ~d.quit

\* rebinding `driver` to a new session: the old one is unreleased when quit()
\* was never called on it
Leaked(old) == IF old # NoDriver /\ ~old.quit THEN 1 ELSE 0



----------------------------------------------------------------------------
(* scraper.py: enrich_jobs_with_descriptions, the Selenium path *)

Digit(i) == <<"0","1","2","3","4","5","6","7","8","9">>[i + 1]
ProxyName(i) == <<"h","t","t","p",":","/","/","p",":", Digit(i)>>

VALID_URL == <<"h","t","t","p",":","/","/","j">>
Absent == <<"Absent">>
JobUrls == {VALID_URL, None}

\* one entry of `attempts`: the egress tried, how the code classified what it got
\* ("FAULT": the attempt raised before any text was classified), and that text
Attempt(egress, verdict, text) ==
    [egress |-> egress, verdict |-> verdict, text |-> text]

Verdict(text) == IF is_blocked_text(text) THEN "BLOCKED" ELSE "OK"

\* a rotation that starts only when there is no proxy to rotate to
rotation_starts_without_pool(text, pool) == is_blocked_text(text) /\ pool = <<>>

\* line 309: whether the rotation over the proxies starts
rotation_starts(text, pool) == is_blocked_text(text) /\ pool # <<>>

\* a rotation that stops at a blocked page and goes on after a clean one
rotation_stops_when_blocked(text) == is_blocked_text(text)

\* line 319 (and line 393): whether the rotation stops at this proxy
rotation_stops(text) == ~is_blocked_text(text)

\* a job dict made anew from the url and the text
only_description(job, text) == [title |-> <<>>, url |-> job.url, description |-> text]

\* lines 325 and 345: job['description'] = desc
with_description(job, text) == [job EXCEPT !.description = text]

EnrichStart ==
    /\ prog = "enrich" /\ pc = "start"
    /\ IF jobs = <<>>
       THEN /\ pc' = "done" /\ result' = "returned"
            /\ UNCHANGED <<driver, idx, exc>>
       ELSE \E created \in BOOLEAN :
              IF ~SELENIUM_AVAILABLE
              THEN \* lines 337-339: the requests path
                   /\ created
                   /\ idx' = 1 /\ pc' = "requests"
                   /\ UNCHANGED <<driver, result, exc>>
              ELSE IF created
              THEN /\ driver' = create_selenium_driver(0)
                   /\ idx' = 1 /\ pc' = "fetch"
                   /\ UNCHANGED <<result, exc>>
              ELSE /\ exc' = TRUE /\ pc' = "finally"
                   /\ UNCHANGED <<driver, idx, result>>
    /\ UNCHANGED <<prog, proxies, unreleased, jobs, p, desc, used_proxy, attempts>>
    /\ UNCHANGED <<main_vars, extraction, sel_vars>>
    /\ UNCHANGED <<call_vars, hist_vars>>

EnrichFetch ==
    /\ prog = "enrich" /\ pc = "fetch"
    /\ \E page \in PageNames :
         LET text == fetch_full_description_selenium(
                         jobs[idx].url, Page(page), Live(driver))
         IN /\ desc' = text
            /\ attempts' = <<Attempt(driver.egress, Verdict(text), text)>>
            /\ IF rotation_starts(text, proxies)
               THEN pc' = "rotate" /\ p' = 1
               ELSE pc' = "store" /\ p' = p
    /\ UNCHANGED <<prog, result, proxies, driver, unreleased, jobs, idx, used_proxy, exc>>
    /\ UNCHANGED <<main_vars, extraction, sel_vars>>
    /\ UNCHANGED <<call_vars, hist_vars>>

\* one iteration of `for p in proxies` (lines 310-323)
EnrichRotate ==
    /\ prog = "enrich" /\ pc = "rotate"
    /\ LET old == quit(driver)
           next_pc == IF p < Len(proxies) THEN "rotate" ELSE "store"
           next_p == IF p < Len(proxies) THEN p + 1 ELSE p
       IN \E created \in BOOLEAN :
            IF ~created
            THEN \* create_selenium_driver raised: `continue`
                 /\ driver' = old
                 /\ attempts' = Append(attempts, Attempt(p, "FAULT", None))
                 /\ pc' = next_pc /\ p' = next_p
                 /\ UNCHANGED <<desc, used_proxy, unreleased>>
            ELSE \E page \in PageNames :
                 LET new == create_selenium_driver(p)
                     text == fetch_full_description_selenium(
                                 jobs[idx].url, Page(page), Live(new))
                 IN /\ driver' = new
                    /\ unreleased' = unreleased + Leaked(old)
                    /\ desc' = text
                    /\ attempts' = Append(attempts, Attempt(p, Verdict(text), text))
                    /\ IF rotation_stops(text)
                       THEN used_proxy' = p /\ pc' = "store" /\ p' = p
                       ELSE used_proxy' = used_proxy /\ pc' = next_pc /\ p' = next_p
    /\ UNCHANGED <<prog, result, proxies, jobs, idx, exc>>
    /\ UNCHANGED <<main_vars, extraction, sel_vars>>
    /\ UNCHANGED <<call_vars, hist_vars>>

\* line 325: job['description'] = desc
EnrichStore ==
    /\ prog = "enrich" /\ pc = "store"
    /\ jobs' = [jobs EXCEPT ![idx] = with_description(@, desc)]
    /\ pc' = "sleep"
    /\ UNCHANGED <<prog, result, proxies, driver, unreleased, idx, p, desc,
                   used_proxy, exc, attempts>>
    /\ UNCHANGED <<main_vars, extraction, sel_vars>>
    /\ UNCHANGED <<call_vars, hist_vars>>

\* line 327: the polite delay, then the next job or the end of the loop
EnrichSleep ==
    /\ prog = "enrich" /\ pc = "sleep"
    /\ IF idx < Len(jobs)
       THEN idx' = idx + 1 /\ pc' = "fetch"
       ELSE idx' = idx /\ pc' = "finally"
    /\ UNCHANGED <<prog, result, proxies, driver, unreleased, jobs, p, desc,
                   used_proxy, exc, attempts>>
    /\ UNCHANGED <<main_vars, extraction, sel_vars>>
    /\ UNCHANGED <<call_vars, hist_vars>>

\* lines 328-335: finally: quit the driver if there is one; then return or re-raise
EnrichFinally ==
    /\ prog = "enrich" /\ pc = "finally"
    /\ driver' = quit(driver)
    /\ result' = IF exc THEN "raised" ELSE "returned"
    /\ pc' = "done"
    /\ UNCHANGED <<prog, proxies, unreleased, jobs, idx, p, desc, used_proxy,
                   exc, attempts>>
    /\ UNCHANGED <<main_vars, extraction, sel_vars>>
    /\ UNCHANGED <<call_vars, hist_vars>>

----------------------------------------------------------------------------
(* scraper.py: fetch_full_description and the requests path of             *)
(* enrich_jobs_with_descriptions                                           *)

BLOCKED_403 ==
    <<"B","l","o","c","k","e","d"," ","(","4","0","3",")"," ","w","h","e","n",
      " ","f","e","t","c","h","i","n","g"," ","d","e","s","c","r","i","p","t",
      "i","o","n">>
ERROR_REQUESTS ==
    <<"E","r","r","o","r"," ","f","e","t","c","h","i","n","g"," ","d","e","s",
      "c","r","i","p","t","i","o","n",":"," ">>
NOT_FOUND_REQUESTS ==
    <<"D","e","s","c","r","i","p","t","i","o","n"," ","n","o","t"," ","f","o",
      "u","n","d"," ","o","r"," ","p","a","g","e"," ","b","l","o","c","k","e",
      "d">>
REFUSED == <<"r","e","f","u","s","e","d">>

FORBIDDEN == 403
CLIENT_ERROR == 400

\* What sess.get can be answered with.  get: "ok", "raise" (a
\* RequestException) or "crash" (any other exception); status: the status
\* code; sel: for each of the four selectors the text of the element found
\* (None: soup.find finds nothing); body: the text of the whole page.
Response(name) ==
    CASE name = "job" ->
           [get |-> "ok", status |-> 200, sel |-> <<JOB_TEXT, None, None, None>>,
            body |-> JOB_TEXT, err |-> REFUSED]
      [] name = "late" ->
           [get |-> "ok", status |-> 200, sel |-> <<<<" ">>, None, DENIED_TEXT, None>>,
            body |-> DENIED_TEXT, err |-> REFUSED]
      [] name = "challenge" ->
           [get |-> "ok", status |-> 200, sel |-> <<None, None, None, None>>,
            body |-> CHALLENGE_TEXT, err |-> REFUSED]
      [] name = "bare" ->
           [get |-> "ok", status |-> 200, sel |-> <<None, None, None, None>>,
            body |-> DENIED_TEXT, err |-> REFUSED]
      [] name = "forbidden" ->
           [get |-> "ok", status |-> 403, sel |-> <<None, None, None, None>>,
            body |-> DENIED_TEXT, err |-> REFUSED]
      [] name = "gone" ->
           [get |-> "ok", status |-> 404, sel |-> <<None, None, None, None>>,
            body |-> <<>>, err |-> REFUSED]
      [] name = "refused" ->
           [get |-> "raise", status |-> 0, sel |-> <<None, None, None, None>>,
            body |-> <<>>, err |-> REFUSED]
      [] name = "crash" ->
           [get |-> "crash", status |-> 0, sel |-> <<None, None, None, None>>,
            body |-> <<>>, err |-> REFUSED]

ResponseNames ==
    {"job", "late", "challenge", "bare", "forbidden", "gone", "refused", "crash"}

\* lines 61-64: the first element found whose text is not blank; None when the
\* loop falls through
RECURSIVE first_soup_text(_, _)
first_soup_text(sel, i) ==
    IF i > Len(sel) THEN None
    ELSE IF sel[i] # None /\ strip(sel[i]) # <<>> THEN join_split(sel[i])
    ELSE first_soup_text(sel, i + 1)

\* lines 32-74; Raises: an exception that is no RequestException leaves it
fetch_full_description(url, resp) ==
    IF ~Truthy(url) \/ ~startswith(url, HTTP) THEN NO_VALID_URL
    ELSE IF resp.get = "crash" THEN Raises
    ELSE IF resp.get = "raise" THEN ERROR_REQUESTS \o resp.err
    ELSE IF resp.status = FORBIDDEN THEN BLOCKED_403
    ELSE IF resp.status >= CLIENT_ERROR THEN ERROR_REQUESTS \o resp.err
    ELSE LET found == first_soup_text(resp.sel, 1)
             body_text == join_split(resp.body)
         IN IF found # None THEN found
            ELSE IF Len(body_text) > MIN_BODY_TEXT THEN take(body_text, MAX_BODY_TEXT)
            ELSE NOT_FOUND_REQUESTS

\* lines 341-349: one iteration of the loop: the fetch, the store, the delay;
\* after the last job `return jobs`
EnrichRequests ==
    /\ prog = "enrich" /\ pc = "requests"
    /\ \E name \in ResponseNames :
         LET text == fetch_full_description(jobs[idx].url, Response(name)) IN
         IF text = Raises
         THEN /\ exc' = TRUE /\ result' = "raised" /\ pc' = "done"
              /\ UNCHANGED <<jobs, desc, idx>>
         ELSE /\ desc' = text
              /\ jobs' = [jobs EXCEPT ![idx] = with_description(@, text)]
              /\ IF idx < Len(jobs)
                 THEN idx' = idx + 1 /\ pc' = "requests" /\ UNCHANGED <<result, exc>>
                 ELSE idx' = idx /\ pc' = "done" /\ result' = "returned" /\ exc' = exc
    /\ UNCHANGED <<prog, proxies, driver, unreleased, p, used_proxy, attempts>>
    /\ UNCHANGED <<main_vars, extraction, sel_vars>>
    /\ UNCHANGED <<call_vars, hist_vars>>

\* a list of n job dicts with the urls `urls`; no job has a description yet
job_dicts(urls) ==
    [i \in 1..Len(urls) |->
        [title |-> <<"J", Digit(i)>>, url |-> urls[i], description |-> Absent]]

InitEnrich ==
    /\ prog = "enrich"
    /\ SELENIUM_AVAILABLE \in BOOLEAN
    /\ proxies \in {[i \in 1..n |-> ProxyName(i)] : n \in 0..MaxProxies}
    /\ jobs \in {job_dicts(urls) : urls \in UNION {[1..n -> JobUrls] : n \in 0..MaxJobs}}
    /\ arg = jobs

----------------------------------------------------------------------------
(* main.py: scrape_jobs.  The browser: `windows` holds the open handles,   *)
(* the tab opened for entry i has handle i, and window_handles lists them  *)
(* in the order they were opened.  A call on the driver raises when the    *)
(* environment makes it raise (recorded in `faulted`) or when the window   *)
(* it needs is closed.                                                     *)

MaxLinks == 2

ORIGINAL == 0
DEFAULT_MAX_JOBS == 50
NA == <<"N","/","A">>
AUSTRALIA == <<"A","u","s","t","r","a","l","i","a">>

Link(i) == <<"h","t","t","p",":","/","/","j","/", Digit(i)>>
Links(n) == [i \in 1..n |-> Link(i)]

\* The search page: for each of the four selectors the href of every element
\* it finds (None, empty, or Raises when get_attribute raises), or Raises when
\* find_elements raises.
SearchDom(name, n) ==
    CASE name = "plain" -> <<Links(n), <<>>, <<>>, <<>>>>
      [] name = "later" ->
           <<Raises, <<>>, <<None, <<>>>> \o Links(n) \o Links(n), <<>>>>
      [] name = "broken" ->
           <<(IF n > 0 THEN <<Link(1), Raises, Link(n)>> ELSE <<Raises>>),
             <<>>, <<>>, Links(n)>>

SearchDomNames == {"plain", "later", "broken"}

Has(seq, x) == \E i \in 1..Len(seq) : seq[i] = x

\* lines 68-71: the elements of one selector; stops where get_attribute raises
RECURSIVE collect_hrefs(_, _, _)
collect_hrefs(elems, i, links) ==
    IF i > Len(elems) THEN [links |-> links, raised |-> FALSE]
    ELSE IF elems[i] = Raises THEN [links |-> links, raised |-> TRUE]
    ELSE IF Truthy(elems[i]) /\ ~Has(links, elems[i])
         THEN collect_hrefs(elems, i + 1, Append(links, elems[i]))
         ELSE collect_hrefs(elems, i + 1, links)

\* lines 65-75: the selectors in order, until one leaves job_links non-empty
RECURSIVE collect_links(_, _, _)
collect_links(dom, sel, links) ==
    IF sel > Len(dom) THEN links
    ELSE IF dom[sel] = Raises THEN collect_links(dom, sel + 1, links)
    ELSE LET got == collect_hrefs(dom[sel], 1, links) IN
         IF ~got.raised /\ got.links # <<>> THEN got.links
         ELSE collect_links(dom, sel + 1, got.links)

Min(a, b) == IF a <= b THEN a ELSE b

\* A job page: desc1/desc2: the text behind the two description locators;
\* title, company: the text behind each candidate selector; loc: the texts of
\* the subtitle elements.  Raises: the lookup raises.
T(i) == <<"T", Digit(i)>>
C(i) == <<"C", Digit(i)>>
SYDNEY == <<"S","y","d","n","e","y">>
DETAIL_TEXT == <<"d","u","t","i","e","s">>

DetailPage(name) ==
    CASE name = "full" ->
           [desc1 |-> DETAIL_TEXT, desc2 |-> DETAIL_TEXT,
            title |-> <<T(1), T(2), T(3), T(4)>>, company |-> <<C(1), C(2), C(3)>>,
            loc |-> <<C(1), SYDNEY>>]
      [] name = "fallback" ->
           [desc1 |-> Raises, desc2 |-> DETAIL_TEXT,
            title |-> <<Raises, <<>>, T(3), T(4)>>, company |-> <<<<>>, Raises, C(3)>>,
            loc |-> <<SYDNEY>>]
      [] name = "blank" ->
           [desc1 |-> <<>>, desc2 |-> DETAIL_TEXT,
            title |-> <<<<>>, Raises, Raises, Raises>>, company |-> <<Raises, <<>>, Raises>>,
            loc |-> <<C(1), <<>>>>]
      [] name = "bare" ->
           [desc1 |-> Raises, desc2 |-> Raises,
            title |-> <<Raises, Raises, Raises, Raises>>,
            company |-> <<Raises, Raises, Raises>>, loc |-> Raises]

DetailPageNames == {"full", "fallback", "blank", "bare"}

\* lines 101-110
description_of(page) ==
    IF page.desc1 # Raises THEN page.desc1
    ELSE IF page.desc2 # Raises THEN page.desc2
    ELSE <<>>

\* lines 113-120 and 123-130: the loop over the candidate selectors, from
\* candidate i with `value` assigned so far; probes: the candidates evaluated
RECURSIVE first_text(_, _, _)
first_text(cands, i, value) ==
    IF i > Len(cands) THEN [value |-> value, probes |-> Len(cands)]
    ELSE IF cands[i] = Raises THEN first_text(cands, i + 1, value)
    ELSE IF cands[i] # <<>> THEN [value |-> cands[i], probes |-> i]
    ELSE first_text(cands, i + 1, cands[i])

\* lines 133-141
location_of(loc) ==
    IF loc = Raises THEN AUSTRALIA
    ELSE IF Len(loc) >= 2 THEN loc[2]
    ELSE IF Len(loc) >= 1 THEN loc[1]
    ELSE AUSTRALIA

\* lines 143-150 (scraped_at, the wall-clock time, is left out)
main_record(link, page) ==
    [title |-> first_text(page.title, 1, NA).value,
     company |-> first_text(page.company, 1, NA).value,
     url |-> link,
     location |-> location_of(page.loc),
     description |-> description_of(page)]

NoExtraction ==
    [page |-> "none", title_probes |-> 0, company_probes |-> 0, fetched |-> FALSE]

\* window_handles[-1] among the handles that are not the original window
last_new_handle(open) ==
    LET others == open \ {ORIGINAL} IN
    CHOOSE h \in others : \A g \in others : g <= h

\* the loop `for idx, link in enumerate(job_links[:max_jobs], start=1)`
MainNext(i) == IF i < max_jobs THEN "open" ELSE "quit"

\* lines 46-51: setup_driver(), driver.get(INDEED_SEARCH_URL)
MainStart ==
    /\ prog = "main" /\ pc = "start"
    /\ \E created \in BOOLEAN, loaded \in BOOLEAN :
         IF ~created
         THEN /\ result' = "raised" /\ pc' = "done" /\ exc' = TRUE
              /\ UNCHANGED <<driver, windows>>
         ELSE /\ driver' = create_selenium_driver(0)
              /\ windows' = {ORIGINAL}
              /\ IF loaded
                 THEN pc' = "enumerate" /\ UNCHANGED <<result, exc>>
                 ELSE result' = "raised" /\ pc' = "done" /\ exc' = TRUE
    /\ UNCHANGED <<prog, jobs, idx, extraction, enrich_vars, job_links, max_jobs,
                   focus, new_handle, faulted, skipped>>
    /\ UNCHANGED sel_vars
    /\ UNCHANGED <<call_vars, hist_vars>>

\* lines 54-88: the cookie prompt (every failure ignored), the links, the cap
MainEnumerate ==
    /\ prog = "main" /\ pc = "enumerate"
    /\ \E dom \in SearchDomNames, n \in 0..MaxLinks,
          env_max \in {0, 1, DEFAULT_MAX_JOBS}, fault \in BOOLEAN :
         LET links == collect_links(SearchDom(dom, n), 1, <<>>) IN
         /\ job_links' = links
         /\ IF links = <<>>
            THEN \* lines 77-80: driver.quit(), which may raise; return []
                 /\ driver' = quit(driver)
                 /\ result' = IF fault THEN "raised" ELSE "returned"
                 /\ exc' = fault
                 /\ pc' = "done"
                 /\ enumerated' = [found |-> 0, max |-> NotRead]
                 /\ UNCHANGED <<max_jobs, idx>>
            ELSE /\ max_jobs' = Min(env_max, Len(links))
                 /\ enumerated' = [found |-> Len(links), max |-> env_max]
                 /\ IF fault
                    THEN \* line 88: driver.current_window_handle raises
                         /\ result' = "raised" /\ exc' = TRUE /\ pc' = "done"
                         /\ UNCHANGED <<idx, driver>>
                    ELSE /\ idx' = 1
                         /\ pc' = IF max_jobs' >= 1 THEN "open" ELSE "quit"
                         /\ UNCHANGED <<result, exc, driver>>
    /\ UNCHANGED <<prog, jobs, extraction, enrich_vars, windows, focus, new_handle,
                   faulted, skipped>>
    /\ UNCHANGED sel_vars
    /\ UNCHANGED <<call_vars, delayed, origin>>

\* line 93: window.open(link, '_blank') in the window the driver is switched to
MainOpen ==
    /\ prog = "main" /\ pc = "open"
    /\ \E fault \in BOOLEAN :
         IF focus \notin windows
         THEN /\ ~fault /\ pc' = "except" /\ UNCHANGED <<windows, faulted>>
         ELSE IF fault
         THEN /\ pc' = "except" /\ faulted' = faulted \cup {idx} /\ UNCHANGED windows
         ELSE /\ windows' = windows \cup {idx} /\ pc' = "handles" /\ UNCHANGED faulted
    /\ UNCHANGED <<prog, result, driver, jobs, idx, exc, extraction, enrich_vars,
                   job_links, max_jobs, focus, new_handle, skipped>>
    /\ UNCHANGED sel_vars
    /\ UNCHANGED <<call_vars, hist_vars>>

\* lines 96-97: handles = driver.window_handles; the last one that is not original
MainHandles ==
    /\ prog = "main" /\ pc = "handles"
    /\ \E fault \in BOOLEAN :
         IF fault
         THEN /\ pc' = "except" /\ faulted' = faulted \cup {idx} /\ UNCHANGED new_handle
         ELSE IF windows \ {ORIGINAL} = {}
         THEN /\ pc' = "except" /\ UNCHANGED <<new_handle, faulted>>
         ELSE /\ new_handle' = last_new_handle(windows) /\ pc' = "switch"
              /\ UNCHANGED faulted
    /\ UNCHANGED <<prog, result, driver, jobs, idx, exc, extraction, enrich_vars,
                   job_links, max_jobs, windows, focus, skipped>>
    /\ UNCHANGED sel_vars
    /\ UNCHANGED <<call_vars, hist_vars>>

\* line 98: driver.switch_to.window(new_handle)
MainSwitch ==
    /\ prog = "main" /\ pc = "switch"
    /\ \E fault \in BOOLEAN :
         IF fault
         THEN /\ pc' = "except" /\ faulted' = faulted \cup {idx} /\ UNCHANGED focus
         ELSE /\ focus' = new_handle /\ pc' = "extract" /\ UNCHANGED faulted
    /\ UNCHANGED <<prog, result, driver, jobs, idx, exc, extraction, enrich_vars,
                   job_links, max_jobs, windows, new_handle, skipped>>
    /\ UNCHANGED sel_vars
    /\ UNCHANGED <<call_vars, hist_vars>>

\* lines 101-152: the fields, each lookup guarded; jobs_data.append(...)
MainExtract ==
    /\ prog = "main" /\ pc = "extract"
    /\ \E name \in DetailPageNames :
         LET page == DetailPage(name) IN
         /\ jobs' = Append(jobs, main_record(job_links[idx], page))
         /\ origin' = Append(origin, idx)
         /\ extraction' = [page |-> name,
                           title_probes |-> first_text(page.title, 1, NA).probes,
                           company_probes |-> first_text(page.company, 1, NA).probes,
                           fetched |-> FALSE]
    /\ pc' = "close"
    /\ UNCHANGED <<prog, result, driver, idx, exc, enrich_vars, main_vars>>
    /\ UNCHANGED sel_vars
    /\ UNCHANGED <<call_vars, delayed, enumerated>>

\* line 155: driver.close() closes the window the driver is switched to
MainClose ==
    /\ prog = "main" /\ pc = "close"
    /\ \E fault \in BOOLEAN :
         IF fault
         THEN /\ pc' = "except" /\ faulted' = faulted \cup {idx} /\ UNCHANGED windows
         ELSE /\ windows' = windows \ {focus} /\ pc' = "back" /\ UNCHANGED faulted
    /\ UNCHANGED <<prog, result, driver, jobs, idx, exc, extraction, enrich_vars,
                   job_links, max_jobs, focus, new_handle, skipped>>
    /\ UNCHANGED sel_vars
    /\ UNCHANGED <<call_vars, hist_vars>>

\* line 156: driver.switch_to.window(original_window)
MainBack ==
    /\ prog = "main" /\ pc = "back"
    /\ \E fault \in BOOLEAN :
         IF ORIGINAL \notin windows
         THEN /\ ~fault /\ pc' = "except" /\ UNCHANGED <<focus, faulted>>
         ELSE IF fault
         THEN /\ pc' = "except" /\ faulted' = faulted \cup {idx} /\ UNCHANGED focus
         ELSE /\ focus' = ORIGINAL /\ pc' = "sleep" /\ UNCHANGED faulted
    /\ UNCHANGED <<prog, result, driver, jobs, idx, exc, extraction, enrich_vars,
                   job_links, max_jobs, windows, new_handle, skipped>>
    /\ UNCHANGED sel_vars
    /\ UNCHANGED <<call_vars, hist_vars>>

\* line 157: time.sleep(random.uniform(*DELAY_RANGE)), then the next entry
MainSleep ==
    /\ prog = "main" /\ pc = "sleep"
    /\ delayed' = delayed \cup {idx}
    /\ pc' = MainNext(idx)
    /\ idx' = idx + 1
    /\ UNCHANGED <<prog, result, driver, jobs, exc, extraction, enrich_vars, main_vars>>
    /\ UNCHANGED sel_vars
    /\ UNCHANGED <<call_vars, origin, enumerated>>

\* lines 161-166: the window the recovery closes is the one the driver is
\* switched to; at: the call the environment makes raise, if any
recovery(open, at, fault) ==
    IF fault = "handles" THEN [windows |-> open, focus |-> at]
    ELSE IF Cardinality(open) > 1
    THEN IF fault = "close" \/ at \notin open THEN [windows |-> open, focus |-> at]
         ELSE IF fault = "switch" \/ ORIGINAL \notin (open \ {at})
         THEN [windows |-> open \ {at}, focus |-> at]
         ELSE [windows |-> open \ {at}, focus |-> ORIGINAL]
    ELSE [windows |-> open, focus |-> at]

\* lines 159-168: the except branch of the per-entry try; `continue`
MainExcept ==
    /\ prog = "main" /\ pc = "except"
    /\ \E fault \in {"none", "handles", "close", "switch"} :
         LET after == recovery(windows, focus, fault) IN
         \* a fault is chosen only where the call is made and would succeed
         /\ fault \in {"close", "switch"} => Cardinality(windows) > 1
         /\ fault = "close" => focus \in windows
         /\ fault = "switch" => focus \in windows /\ ORIGINAL \in (windows \ {focus})
         /\ windows' = after.windows
         /\ focus' = after.focus
         /\ faulted' = IF fault = "none" THEN faulted ELSE faulted \cup {idx}
    /\ skipped' = Append(skipped, idx)
    /\ pc' = MainNext(idx)
    /\ idx' = idx + 1
    /\ UNCHANGED <<prog, result, driver, jobs, exc, extraction, enrich_vars,
                   job_links, max_jobs, new_handle>>
    /\ UNCHANGED sel_vars
    /\ UNCHANGED <<call_vars, hist_vars>>

\* lines 170-171: driver.quit(), which may raise; return jobs_data
MainQuit ==
    /\ prog = "main" /\ pc = "quit"
    /\ \E fault \in BOOLEAN :
         /\ driver' = quit(driver)
         /\ result' = IF fault THEN "raised" ELSE "returned"
         /\ exc' = fault
    /\ pc' = "done"
    /\ UNCHANGED <<prog, jobs, idx, extraction, enrich_vars, main_vars>>
    /\ UNCHANGED sel_vars
    /\ UNCHANGED <<call_vars, hist_vars>>

InitMain ==
    /\ prog = "main"
    /\ SELENIUM_AVAILABLE = TRUE /\ arg = None
    /\ jobs = <<>>
    /\ proxies = <<>>

----------------------------------------------------------------------------
(* scraper.py: scrape_jobs_selenium *)

MaxCards == 2

DEFAULT_MAX_RESULTS == 50
RC == <<"/","r","c">>
INDEED == <<"h","t","t","p","s",":","/","/","a","u",".","i","n","d","e","e","d",".","c","o","m">>
RESULTS_TEXT == <<"J","o","b","s"," ","i","n"," ","A","u","s","t","r","a","l","i","a">>

\* What the search url can be answered with: the text of the body element
\* (Raises: find_element raises) and whether the page holds job cards.
SearchView(name) ==
    CASE name = "results" -> [body |-> RESULTS_TEXT, listing |-> TRUE]
      [] name = "challenge" -> [body |-> CHALLENGE_TEXT, listing |-> FALSE]
      [] name = "empty" -> [body |-> <<>>, listing |-> FALSE]
      [] name = "unreadable" -> [body |-> Raises, listing |-> TRUE]

SearchViewNames == {"results", "challenge", "empty", "unreadable"}

\* A card: the text behind each locator (Raises: the lookup raises), the
\* aria-label and href attributes (None: absent), whether clicking raises,
\* and the text of the two description panes after the click.
Card(name) ==
    CASE name = "link" ->
           [h2 |-> <<" ","D","a","t","a"," "," ","E","n","g","i","n","e","e","r"," ">>,
            aria |-> None, company |-> <<"A","c","m","e">>,
            location |-> <<" ","P","e","r","t","h"," ">>, salary |-> <<"$","9","0","k">>,
            summary |-> <<"A","p","p","l","y"," ","n","o","w">>,
            href |-> <<"/","r","c","/","c","l","k","?","j","k","=","1">>,
            click |-> "ok",
            pane1 |-> <<" "," ","D","e","s","i","g","n","\n"," ","s","y","s","t","e","m","s"," ">>,
            pane2 |-> Raises]
      [] name = "beacon" ->
           [h2 |-> <<"N","u","r","s","e">>, aria |-> None, company |-> Raises,
            location |-> Raises, salary |-> Raises, summary |-> Raises,
            href |-> None, click |-> "ok", pane1 |-> Raises,
            pane2 |-> <<"R","u","n"," "," ","w","a","r","d","s">>]
      [] name = "untitled" ->
           [h2 |-> <<" ">>, aria |-> <<"N","u","r","s","e">>,
            company |-> <<"A","c","m","e">>, location |-> Raises, salary |-> Raises,
            summary |-> Raises, href |-> <<"h","t","t","p",":","/","/","j","/","2">>,
            click |-> "raise", pane1 |-> Raises, pane2 |-> Raises]
      [] name = "label" ->
           [h2 |-> Raises, aria |-> <<"N","u","r","s","e">>, company |-> Raises,
            location |-> Raises, salary |-> Raises, summary |-> Raises,
            href |-> Raises, click |-> "ok", pane1 |-> Raises, pane2 |-> Raises]
      [] name = "silent" ->
           [h2 |-> <<"C","l","e","r","k">>, aria |-> None, company |-> <<"A","c","m","e">>,
            location |-> Raises, salary |-> Raises, summary |-> Raises,
            href |-> <<"h","t","t","p",":","/","/","j","/","3">>,
            click |-> "ok", pane1 |-> Raises, pane2 |-> <<" ">>]
      \* a reference into a page the session has left: every use of it raises
      [] name = "stale" ->
           [h2 |-> Raises, aria |-> Raises, company |-> Raises,
            location |-> Raises, salary |-> Raises, summary |-> Raises,
            href |-> Raises, click |-> "raise", pane1 |-> Raises, pane2 |-> Raises]

CardNames == {"link", "beacon", "untitled", "label", "silent"}

\* try: x.text.strip()  except: ''
text_or_empty(x) == IF x = Raises THEN <<>> ELSE strip(x)

\* lines 420-427: h2.jobTitle, and the aria-label only when that lookup raises
card_title(card) ==
    IF card.h2 # Raises THEN [value |-> strip(card.h2), probes |-> 1]
    ELSE IF card.aria # Raises /\ Truthy(card.aria) THEN [value |-> card.aria, probes |-> 2]
    ELSE [value |-> <<>>, probes |-> 2]

\* lines 449-455
card_url(card) ==
    IF card.href = Raises THEN <<>>
    ELSE LET href == IF Truthy(card.href) /\ startswith(card.href, RC)
                     THEN INDEED \o card.href ELSE card.href
         IN IF Truthy(href) THEN href ELSE <<>>

\* lines 474-485: the description the click path leaves
pane_description(card) ==
    LET d == IF card.pane1 # Raises THEN strip(card.pane1)
             ELSE IF card.pane2 # Raises THEN strip(card.pane2)
             ELSE <<>>
    IN IF Truthy(d) THEN join_split(d) ELSE <<>>

\* lines 468-491: whether the walker navigates to the card's url
falls_back(card, url) == card.click = "raise" /\ Truthy(url)

\* lines 468-491
card_description(card, url, page, live) ==
    IF card.click = "ok" THEN pane_description(card)
    ELSE IF Truthy(url) THEN fetch_full_description_selenium(url, page, live)
    ELSE <<>>

\* lines 457-466
card_record(card, page, live) ==
    [title |-> card_title(card).value,
     company |-> text_or_empty(card.company),
     location |-> text_or_empty(card.location),
     salary |-> text_or_empty(card.salary),
     job_type |-> <<>>,
     summary |-> text_or_empty(card.summary),
     posted |-> <<>>,
     url |-> card_url(card),
     description |-> card_description(card, card_url(card), page, live)]

\* lines 369-373: create_selenium_driver(proxy=None), driver.get(base_url)
SelStart ==
    /\ prog = "selenium" /\ pc = "start"
    /\ \E created \in BOOLEAN, loaded \in BOOLEAN :
         IF ~SELENIUM_AVAILABLE
         THEN \* lines 357-358: raise RuntimeError, before the try
              /\ created /\ loaded
              /\ driver' = driver /\ exc' = TRUE /\ pc' = "done" /\ result' = "raised"
         ELSE IF ~created
         THEN driver' = driver /\ exc' = TRUE /\ pc' = "finally" /\ result' = result
         ELSE /\ driver' = create_selenium_driver(0)
              /\ result' = result
              /\ IF loaded THEN exc' = exc /\ pc' = "check"
                 ELSE exc' = TRUE /\ pc' = "finally"
    /\ UNCHANGED <<prog, jobs, idx, extraction, enrich_vars, main_vars, sel_vars>>
    /\ UNCHANGED <<call_vars, hist_vars>>

\* lines 376-380 and 398-399: the body text of the first page
SelCheck ==
    /\ prog = "selenium" /\ pc = "check"
    /\ \E name \in SearchViewNames :
         LET body == SearchView(name).body
             blocked == body = Raises \/ is_blocked_text(body)
         IN /\ view' = name
            /\ attempts' = <<IF body = Raises THEN Attempt(driver.egress, "FAULT", None)
                              ELSE Attempt(driver.egress, Verdict(body), body)>>
            /\ IF blocked /\ proxies # <<>>
               THEN pc' = "rotate" /\ p' = 1
               ELSE pc' = "cards" /\ p' = p
    /\ UNCHANGED <<prog, result, driver, jobs, idx, exc, extraction, proxies, unreleased,
                   desc, used_proxy, main_vars, cards, on_results>>
    /\ UNCHANGED <<call_vars, hist_vars>>

\* lines 383-397: one iteration of `for p in proxies`
SelRotate ==
    /\ prog = "selenium" /\ pc = "rotate"
    /\ LET old == quit(driver)
           next_pc == IF p < Len(proxies) THEN "rotate" ELSE "cards"
           next_p == IF p < Len(proxies) THEN p + 1 ELSE p
       IN \E created \in BOOLEAN, loaded \in BOOLEAN, name \in SearchViewNames :
            IF ~created
            THEN \* create_selenium_driver raised: `continue`
                 /\ loaded /\ name = "results"
                 /\ driver' = old
                 /\ attempts' = Append(attempts, Attempt(p, "FAULT", None))
                 /\ pc' = next_pc /\ p' = next_p
                 /\ UNCHANGED <<unreleased, view>>
            ELSE LET body == SearchView(name).body IN
                 /\ driver' = create_selenium_driver(p)
                 /\ unreleased' = unreleased + Leaked(old)
                 /\ IF ~loaded
                    THEN \* driver.get raised: `continue`
                         /\ name = "results"
                         /\ view' = "unreachable"
                         /\ attempts' = Append(attempts, Attempt(p, "FAULT", None))
                         /\ pc' = next_pc /\ p' = next_p
                    ELSE /\ view' = name
                         /\ attempts' = Append(attempts,
                               IF body = Raises THEN Attempt(p, "FAULT", None)
                               ELSE Attempt(p, Verdict(body), body))
                         /\ IF body # Raises /\ rotation_stops(body)
                            THEN pc' = "cards" /\ p' = p
                            ELSE pc' = next_pc /\ p' = next_p
    /\ UNCHANGED <<prog, result, jobs, idx, exc, extraction, proxies, desc, used_proxy,
                   main_vars, cards, on_results>>
    /\ UNCHANGED <<call_vars, hist_vars>>

\* lines 402-409: the wait (its failure ignored), find_elements, cards[:max_results]
SelCards ==
    /\ prog = "selenium" /\ pc = "cards"
    /\ \E fault \in BOOLEAN, max_results \in {0, 1, DEFAULT_MAX_RESULTS},
          found \in UNION {[1..n -> CardNames] : n \in 0..MaxCards} :
         IF ~Live(driver) \/ fault
         THEN \* find_elements raises: out through the finally
              /\ fault = Live(driver) /\ max_results = 0 /\ found = <<>>
              /\ exc' = TRUE /\ pc' = "finally"
              /\ UNCHANGED <<cards, idx, on_results, enumerated>>
         ELSE /\ IF view \in SearchViewNames /\ SearchView(view).listing
                 THEN cards' = take(found, max_results)
                 ELSE found = <<>> /\ cards' = <<>>
              /\ enumerated' = [found |-> Len(found), max |-> max_results]
              /\ on_results' = TRUE
              /\ idx' = 1
              /\ pc' = IF cards' # <<>> THEN "card" ELSE "finally"
              /\ exc' = exc
    /\ UNCHANGED <<prog, result, driver, jobs, extraction, enrich_vars, main_vars, view>>
    /\ UNCHANGED <<call_vars, delayed, origin>>

\* lines 410-493: one card: the fields, the click, the fallback, jobs.append(job)
SelCard ==
    /\ prog = "selenium" /\ pc = "card"
    /\ \E page \in PageNames :
         LET name == IF on_results THEN cards[idx] ELSE "stale"
             card == Card(name)
             url == card_url(card)
         IN /\ falls_back(card, url) \/ page = "job"
            /\ jobs' = Append(jobs, card_record(card, Page(page), Live(driver)))
            /\ origin' = Append(origin, idx)
            /\ extraction' = [page |-> name, title_probes |-> card_title(card).probes,
                              company_probes |-> 1, fetched |-> falls_back(card, url)]
            /\ on_results' = IF falls_back(card, url) /\ startswith(url, HTTP)
                                /\ Page(page).get = "ok"
                             THEN FALSE ELSE on_results
    /\ pc' = "sleep"
    /\ UNCHANGED <<prog, result, driver, idx, exc, enrich_vars, main_vars, view, cards>>
    /\ UNCHANGED <<call_vars, delayed, enumerated>>

\* line 495: the delay between cards, then the next card or `return jobs`
SelSleep ==
    /\ prog = "selenium" /\ pc = "sleep"
    /\ delayed' = delayed \cup {idx}
    /\ IF idx < Len(cards)
       THEN idx' = idx + 1 /\ pc' = "card"
       ELSE idx' = idx /\ pc' = "finally"
    /\ UNCHANGED <<prog, result, driver, jobs, exc, extraction, enrich_vars, main_vars,
                   sel_vars>>
    /\ UNCHANGED <<call_vars, origin, enumerated>>

\* lines 501-505: finally: driver.quit(), any failure of it ignored
SelFinally ==
    /\ prog = "selenium" /\ pc = "finally"
    /\ driver' = quit(driver)
    /\ result' = IF exc THEN "raised" ELSE "returned"
    /\ pc' = "done"
    /\ UNCHANGED <<prog, jobs, idx, exc, extraction, enrich_vars, main_vars, sel_vars>>
    /\ UNCHANGED <<call_vars, hist_vars>>

InitSelenium ==
    /\ prog = "selenium"
    /\ SELENIUM_AVAILABLE \in BOOLEAN /\ arg = None
    /\ jobs = <<>>
    /\ proxies \in {[i \in 1..n |-> ProxyName(i)] : n \in 0..MaxProxies}

----------------------------------------------------------------------------
(* scraper.py: main.  `top` is the position                                *)
(* of main's frame while a function it called is running.                  *)

\* the url generate_mock_jobs gives a job: the search url of its title
MOCK_URL == INDEED \o <<"/","j","o","b","s","?","q","=","N","u","r","s","e",
                        "&","l","=","A","u","s","t","r","a","l","i","a">>

\* lines 169-261, cut to n jobs; of a job only the url is read afterwards
generate_mock_jobs(n) == job_dicts([i \in 1..n |-> MOCK_URL])

\* the locals of a function that has been left, as a new call finds them
FreshFrame ==
    /\ result' = "running" /\ exc' = FALSE /\ driver' = NoDriver
    /\ idx' = 0 /\ p' = 0 /\ desc' = None /\ used_proxy' = 0 /\ attempts' = <<>>
    /\ extraction' = NoExtraction
    /\ view' = "none" /\ cards' = <<>> /\ on_results' = FALSE
    /\ delayed' = {} /\ origin' = <<>> /\ enumerated' = NotEnumerated

\* lines 507-539: the arguments, load_proxies(), the call of scrape_jobs_selenium
ScraperMainStart ==
    /\ prog = "scraper_main" /\ pc = "start"
    /\ IF SELENIUM_AVAILABLE
       THEN /\ prog' = "selenium" /\ top' = "scrape"
            /\ UNCHANGED <<jobs, arg>>
       ELSE \* lines 543-549: no scrape; the mock jobs and the call of enrich
            \E n \in 1..MaxJobs :
            /\ jobs' = generate_mock_jobs(n) /\ arg' = jobs'
            /\ prog' = "enrich" /\ top' = "enrich"
    /\ UNCHANGED <<pc, result, driver, idx, exc, extraction, enrich_vars,
                   main_vars, sel_vars, ret, hist_vars, SELENIUM_AVAILABLE>>

\* lines 538-549: scrape_jobs_selenium is over; an exception of it is caught and
\* leaves jobs = []; without jobs: the mock jobs and the call of
\* enrich_jobs_with_descriptions
ScraperMainScraped ==
    /\ top = "scrape" /\ prog = "selenium" /\ pc = "done"
    /\ LET got == IF result = "raised" THEN <<>> ELSE jobs IN
       IF got # <<>>
       THEN /\ jobs' = got /\ arg' = arg
            /\ prog' = "scraper_main" /\ pc' = "save" /\ top' = "save"
       ELSE \E n \in 1..MaxJobs :
            /\ jobs' = generate_mock_jobs(n) /\ arg' = jobs'
            /\ prog' = "enrich" /\ pc' = "start" /\ top' = "enrich"
    /\ FreshFrame
    /\ unreleased' = unreleased + Leaked(driver)
    /\ UNCHANGED <<proxies, main_vars, ret, SELENIUM_AVAILABLE>>

\* line 549: enrich_jobs_with_descriptions is over; its exception is not caught
ScraperMainEnriched ==
    /\ top = "enrich" /\ prog = "enrich" /\ pc = "done"
    /\ prog' = "scraper_main"
    /\ IF result = "raised"
       THEN pc' = "done" /\ top' = "aborted"
       ELSE pc' = "save" /\ top' = "save"
    /\ UNCHANGED <<result, driver, jobs, idx, exc, extraction, enrich_vars,
                   main_vars, sel_vars, arg, ret, hist_vars, SELENIUM_AVAILABLE>>

\* lines 552-569: save_to_csv(jobs) and the summary
ScraperMainSave ==
    /\ prog = "scraper_main" /\ pc = "save"
    /\ top' = "saved" /\ pc' = "done" /\ result' = "returned"
    /\ UNCHANGED <<prog, driver, jobs, idx, exc, extraction, enrich_vars,
                   main_vars, sel_vars, arg, ret, hist_vars, SELENIUM_AVAILABLE>>

InitScraperMain ==
    /\ prog = "scraper_main"
    /\ SELENIUM_AVAILABLE \in BOOLEAN /\ arg = None
    /\ jobs = <<>>
    /\ proxies \in {[i \in 1..n |-> ProxyName(i)] : n \in 0..MaxProxies}

----------------------------------------------------------------------------
(* scraper.py: is_blocked_text and load_proxies applied on their own: `arg` *)
(* is the argument, `ret` the value returned.                              *)

MaxLines == 2

LowerCase == {LOWER[i] : i \in 1..26}

upper_char(c) ==
    IF c \in LowerCase THEN UPPER[CHOOSE i \in 1..26 : LOWER[i] = c] ELSE c

\* str.upper()
upper(s) == [i \in 1..Len(s) |-> upper_char(s[i])]

\* the letters of s in upper and lower case by turns
alternate(s) ==
    [i \in 1..Len(s) |-> IF i % 2 = 1 THEN upper_char(s[i]) ELSE lower_char(s[i])]

\* page texts: empty, blank, clean, with a marker, and with nearly a marker
PageTexts ==
    {None, <<>>, <<" ">>, JOB_TEXT, CHALLENGE_TEXT, DENIED_TEXT, RESULTS_TEXT,
     NOT_FOUND_SELENIUM, NO_VALID_URL, ERROR_SELENIUM \o TIMEOUT_MESSAGE,
     <<"x","x"," ","c","a","p","t","c","h","a"," ","y","y">>,
     <<"c","a","p","t"," ","c","h","a">>,
     <<"v","e","r","i","f","i","c","a","t","i","o","n">>,
     <<"u","n","u","s","u","a","l"," ","t","r","a","f","f","i","c">>,
     <<"u","n","u","s","u","a","l"," "," ","t","r","a","f","f","i","c">>,
     <<"r","o","b","o","t"," ","c","h","e","c","k">>,
     <<"a","r","e"," ","y","o","u"," ","a"," ","r","o","b","o","t">>,
     <<"a","r","e"," ","y","o","u"," ","r","o","b","o","t">>}

\* each text as it is, in upper case, in lower case and in mixed case
TextArgs ==
    PageTexts \cup {upper(t) : t \in PageTexts} \cup {lower(t) : t \in PageTexts}
              \cup {alternate(t) : t \in PageTexts}

IsBlockedText ==
    /\ prog = "is_blocked_text" /\ pc = "start"
    /\ ret' = is_blocked_text(arg)
    /\ pc' = "done" /\ result' = "returned"
    /\ UNCHANGED <<prog, driver, jobs, idx, exc, extraction, enrich_vars, main_vars,
                   sel_vars, top, arg, hist_vars, SELENIUM_AVAILABLE>>

InitIsBlockedText ==
    /\ prog = "is_blocked_text"
    /\ SELENIUM_AVAILABLE = TRUE
    /\ jobs = <<>> /\ proxies = <<>>
    /\ arg \in TextArgs

\* proxies.txt: whether it exists, whether open() succeeds, and its lines
\* (Raises: reading the line raises, as a byte that is no utf-8 does)
HTTP_PREFIX == <<"h","t","t","p",":","/","/">>

ProxyLines ==
    {<<"h",":","1","\n">>,
     <<" ","\t","\n">>,
     <<" ","h","t","t","p",":","/","/","h",":","2"," ","\n">>,
     <<"s","o","c","k","s","5",":","/","/","h",":","3","\n">>,
     <<"h","t","t","p","d",":","4">>,
     Raises}

ProxyFiles ==
    {[exists |-> FALSE, opens |-> FALSE, lines |-> <<>>],
     [exists |-> TRUE, opens |-> FALSE, lines |-> <<>>]}
    \cup {[exists |-> TRUE, opens |-> TRUE, lines |-> l] :
             l \in UNION {[1..n -> ProxyLines] : n \in 0..MaxLines}}

\* lines 130-136: the loop over the lines, from line i with `out` so far
RECURSIVE read_proxies(_, _, _)
read_proxies(lines, i, out) ==
    IF i > Len(lines) THEN [out |-> out, raised |-> FALSE]
    ELSE IF lines[i] = Raises THEN [out |-> out, raised |-> TRUE]
    ELSE LET q == strip(lines[i]) IN
         IF ~Truthy(q) THEN read_proxies(lines, i + 1, out)
         ELSE IF ~startswith(q, HTTP)
         THEN read_proxies(lines, i + 1, Append(out, HTTP_PREFIX \o q))
         ELSE read_proxies(lines, i + 1, Append(out, q))

\* lines 119-139
load_proxies(file) ==
    IF ~file.exists THEN <<>>
    ELSE IF ~file.opens THEN <<>>
    ELSE LET read == read_proxies(file.lines, 1, <<>>) IN
         IF read.raised THEN <<>> ELSE read.out

LoadProxies ==
    /\ prog = "load_proxies" /\ pc = "start"
    /\ ret' = load_proxies(arg)
    /\ pc' = "done" /\ result' = "returned"
    /\ UNCHANGED <<prog, driver, jobs, idx, exc, extraction, enrich_vars, main_vars,
                   sel_vars, top, arg, hist_vars, SELENIUM_AVAILABLE>>

InitLoadProxies ==
    /\ prog = "load_proxies"
    /\ SELENIUM_AVAILABLE = TRUE
    /\ jobs = <<>> /\ proxies = <<>>
    /\ arg \in ProxyFiles

----------------------------------------------------------------------------

Init ==
    /\ pc = "start" /\ result = "running" /\ exc = FALSE
    /\ driver = NoDriver /\ unreleased = 0
    /\ idx = 0 /\ p = 0 /\ desc = None /\ used_proxy = 0 /\ attempts = <<>>
    /\ job_links = <<>> /\ max_jobs = 0 /\ windows = {} /\ focus = ORIGINAL
    /\ new_handle = ORIGINAL /\ faulted = {} /\ skipped = <<>>
    /\ extraction = NoExtraction
    /\ view = "none" /\ cards = <<>> /\ on_results = FALSE
    /\ top = "none" /\ ret = None
    /\ delayed = {} /\ origin = <<>> /\ enumerated = NotEnumerated
    /\ \/ InitEnrich
       \/ InitMain
       \/ InitSelenium
       \/ InitScraperMain
       \/ InitIsBlockedText
       \/ InitLoadProxies

Next ==
    \/ EnrichStart
    \/ EnrichFetch
    \/ EnrichRotate
    \/ EnrichStore
    \/ EnrichSleep
    \/ EnrichFinally
    \/ EnrichRequests
    \/ MainStart
    \/ MainEnumerate
    \/ MainOpen
    \/ MainHandles
    \/ MainSwitch
    \/ MainExtract
    \/ MainClose
    \/ MainBack
    \/ MainSleep
    \/ MainExcept
    \/ MainQuit
    \/ SelStart
    \/ SelCheck
    \/ SelRotate
    \/ SelCards
    \/ SelCard
    \/ SelSleep
    \/ SelFinally
    \/ ScraperMainStart
    \/ ScraperMainScraped
    \/ ScraperMainEnriched
    \/ ScraperMainSave
    \/ IsBlockedText
    \/ LoadProxies

Spec == Init /\ [][Next]_vars

----------------------------------------------------------------------------
(* The claims *)

LastRecord == jobs[Len(jobs)]

\* the rotation for the current job (enrich) or for the search page (selenium)
\* is over
RotationOver ==
    \/ prog = "enrich" /\ pc \in {"store", "sleep"}
    \/ prog = "selenium" /\ pc = "cards"

\* the first k attempts were classified BLOCKED and attempt k+1 OK
BlockedThenOK(k) ==
    /\ Len(attempts) >= k + 1
    /\ \A i \in 1..k : attempts[i].verdict = "BLOCKED"
    /\ attempts[k + 1].verdict = "OK"

AllBlocked == \A i \in 1..Len(attempts) : attempts[i].verdict = "BLOCKED"

\* C1: on every exit path of a walker run on which a driver was created,
\* quit() has been called on the most recently created driver when control
\* leaves the function.
C1_QuitOnEveryExit ==
    (pc = "done" /\ driver # NoDriver) => driver.quit

\* C2: if the fetch is classified BLOCKED on the first k egress attempts and
\* OK on attempt k+1, the rotation makes exactly k+1 attempts, the proxies it
\* switched to are proxies[1..k] in load order, and the OK text is the result:
\* the description stored for the job (enrich), the page the walker goes on
\* with (selenium).
C2_RecoveryStopsAtFirstOK ==
    \A k \in 0..Len(proxies) :
        BlockedThenOK(k) =>
            /\ Len(attempts) = k + 1
            /\ \A i \in 1..k : attempts[i + 1].egress = i
            /\ (prog = "enrich" /\ pc = "store") => desc = attempts[k + 1].text
            /\ (prog = "enrich" /\ pc = "sleep") =>
                   jobs[idx].description = attempts[k + 1].text
            /\ (prog = "selenium" /\ pc = "cards") =>
                   /\ driver.egress = attempts[k + 1].egress /\ Live(driver)
                   /\ SearchView(view).body = attempts[k + 1].text

\* a job of enrich recovered at the last proxy, after every earlier egress
C2_Witness ==
    /\ prog = "enrich" /\ pc = "sleep"
    /\ Len(proxies) = 2
    /\ BlockedThenOK(2)
    /\ jobs[idx].description = attempts[3].text

\* C3: if every attempt for a job is classified BLOCKED, the rotation makes
\* exactly 1 + len(proxies) attempts, the text of the last attempt is stored as
\* the job's result, and the run goes on without raising.
C3_ExhaustionKeepsLastResult ==
    (RotationOver /\ AllBlocked) =>
        /\ Len(attempts) = 1 + Len(proxies)
        /\ ~exc /\ result = "running"
        /\ (prog = "enrich" /\ pc = "store") => desc = attempts[Len(attempts)].text
        /\ (prog = "enrich" /\ pc = "sleep") =>
               jobs[idx].description = attempts[Len(attempts)].text

\* a job of enrich whose every egress was blocked, with proxies to rotate to
C3_Witness ==
    /\ prog = "enrich" /\ pc = "sleep"
    /\ Len(proxies) = 2
    /\ AllBlocked /\ Len(attempts) = 3
    /\ is_blocked_text(jobs[idx].description)

\* C4: within the attempts made for one job of enrich, no egress is fetched
\* through more than once.
C4_NoEgressTwice ==
    prog = "enrich" =>
        \A i, j \in 1..Len(attempts) :
            (i # j /\ attempts[i].verdict # "FAULT" /\ attempts[j].verdict # "FAULT")
                => attempts[i].egress # attempts[j].egress

\* C5: for every job of enrich the first fetch goes through the direct egress,
\* and the proxies follow in load order.
C5_DirectEgressFirst ==
    (prog = "enrich" /\ attempts # <<>>) =>
        /\ attempts[1].egress = 0
        /\ \A i \in 2..Len(attempts) : attempts[i].egress = i - 1

\* C6: every record a walker run has appended has a non-empty url.
C6_RecordsHaveUrl ==
    prog \in {"main", "selenium"} =>
        \A i \in 1..Len(jobs) : Truthy(jobs[i].url)

\* the text a found element resolves to (Raises: the lookup raised)
text_or_raises(x) == IF x = Raises THEN Raises ELSE strip(x)

\* an absent attribute resolves to no text
none_as_empty(x) == IF x = None THEN <<>> ELSE x

\* the candidates of a field in declared order, each as the text it resolves to
\* (Raises: the lookup raised)
TitleCandidates ==
    IF prog = "main" THEN DetailPage(extraction.page).title
    ELSE LET card == Card(extraction.page) IN
         <<text_or_raises(card.h2), none_as_empty(card.aria)>>

Resolves(cand) == cand # Raises /\ cand # <<>>

FirstResolving(cands) ==
    CHOOSE i \in 1..Len(cands) :
        Resolves(cands[i]) /\ \A j \in 1..(i - 1) : ~Resolves(cands[j])

Extracted ==
    \/ prog = "main" /\ pc = "close"
    \/ prog = "selenium" /\ pc = "sleep"

\* C7: if at least one candidate of a field resolves to non-empty text, the
\* field is the text of the first such candidate in declared order and no later
\* candidate is evaluated (title and company in scrape_jobs, title in
\* scrape_jobs_selenium).
C7_FirstNonEmptyCandidateWins ==
    Extracted =>
        /\ (\E i \in 1..Len(TitleCandidates) : Resolves(TitleCandidates[i])) =>
              /\ LastRecord.title = TitleCandidates[FirstResolving(TitleCandidates)]
              /\ extraction.title_probes = FirstResolving(TitleCandidates)
        /\ prog = "main" =>
              LET cands == DetailPage(extraction.page).company IN
              (\E i \in 1..Len(cands) : Resolves(cands[i])) =>
                  /\ LastRecord.company = cands[FirstResolving(cands)]
                  /\ extraction.company_probes = FirstResolving(cands)

\* C8: in every record of scrape_jobs title and company are never empty: when
\* no candidate resolves to non-empty text the field is "N/A", and location is
\* "Australia" when no location element yields non-empty text.
C8_DefaultsNeverOverwritten ==
    prog = "main" =>
        /\ \A i \in 1..Len(jobs) : jobs[i].title # <<>> /\ jobs[i].company # <<>>
        /\ pc = "close" =>
              LET page == DetailPage(extraction.page) IN
              /\ (\A i \in 1..Len(page.title) : ~Resolves(page.title[i]))
                     => LastRecord.title = NA
              /\ (\A i \in 1..Len(page.company) : ~Resolves(page.company[i]))
                     => LastRecord.company = NA
              /\ (page.loc = Raises \/ \A i \in 1..Len(page.loc) : page.loc[i] = <<>>)
                     => LastRecord.location = AUSTRALIA

\* C9: when the loop of scrape_jobs is over, every entry during which the
\* environment raised nothing has a record, whatever happened to the other
\* entries, and there are at most as many records as entries.
C9_PerItemIsolation ==
    (prog = "main" /\ pc = "quit") =>
        /\ \A j \in 1..max_jobs :
              j \notin faulted => \E i \in 1..Len(jobs) : jobs[i].url = job_links[j]
        /\ Len(jobs) <= Len(job_links)

\* C10: at the start of every per-item iteration of scrape_jobs the original
\* search window is the only open window and has the focus.
C10_OneViewAtIterationStart ==
    (prog = "main" /\ pc = "open") => windows = {ORIGINAL} /\ focus = ORIGINAL

\* C11: once the initial driver has been created, a walker run (scrape_jobs,
\* scrape_jobs_selenium) is never left by an exception: every fault of the
\* first navigation, of the rotation, of the enumeration or of an entry ends
\* in a returned list.
C11_WalkerNeverRaises ==
    (prog \in {"main", "selenium"} /\ driver # NoDriver) => result # "raised"

\* C12: the run of scraper.py main never ends before the call of save_to_csv:
\* no failure of the live scrape, of the mock jobs or of the enrichment leaves
\* main before that point.
C12_MainReachesSink ==
    (prog = "scraper_main" /\ pc = "done") => top = "saved"

\* the six marker phrases
Markers ==
    {<<"c","a","p","t","c","h","a">>,
     <<"v","e","r","i","f","y">>,
     <<"u","n","u","s","u","a","l"," ","t","r","a","f","f","i","c">>,
     <<"a","c","c","e","s","s"," ","d","e","n","i","e","d">>,
     <<"r","o","b","o","t"," ","c","h","e","c","k">>,
     <<"a","r","e"," ","y","o","u"," ","a"," ","r","o","b","o","t">>}

HasMarker(text) == \E m \in Markers : contains(lower(text), m)

\* C13: is_blocked_text(text) is true if and only if text is None or empty or
\* its lower-cased form contains one of the six marker phrases; the verdict is
\* the same for the text in upper, lower and mixed case, and it is false for a
\* non-empty text without a marker.
C13_BlockedIffEmptyOrMarker ==
    (prog = "is_blocked_text" /\ pc = "done") =>
        /\ ret = (arg = None \/ arg = <<>> \/ HasMarker(arg))
        /\ arg # None =>
               /\ is_blocked_text(upper(arg)) = ret
               /\ is_blocked_text(lower(arg)) = ret
               /\ is_blocked_text(alternate(arg)) = ret
        /\ (arg # None /\ arg # <<>> /\ ~HasMarker(arg)) => ret = FALSE

\* a marker in upper case inside a longer text is found
C13_Witness ==
    /\ prog = "is_blocked_text" /\ pc = "done"
    /\ arg = upper(<<"x","x"," ","c","a","p","t","c","h","a"," ","y","y">>)
    /\ ret = TRUE

\* one of the diagnostic placeholders of fetch_full_description_selenium
Placeholder(text) ==
    text = NOT_FOUND_SELENIUM \/ startswith(text, ERROR_SELENIUM)

\* C14: whenever the first fetch for a job of enrich returns one of the
\* diagnostic placeholders (no description found, or the navigation timed out
\* or raised) and there are proxies, the rotation over the proxies starts.
C14_PlaceholderStartsRotation ==
    (/\ prog = "enrich" /\ pc \in {"rotate", "store"}
     /\ Len(attempts) = 1 /\ Placeholder(attempts[1].text)
     /\ proxies # <<>>)
        => pc = "rotate"

\* C15: for every card of scrape_jobs_selenium that has a url: if the click
\* path raises, or completes with an empty description, the walker calls
\* fetch_full_description_selenium(url) before it appends the record.
C15_FallbackWhenPaneEmpty ==
    (prog = "selenium" /\ pc = "sleep" /\ extraction.page # "stale") =>
        LET card == Card(extraction.page) IN
        (Truthy(LastRecord.url)
         /\ (card.click = "raise" \/ ~Truthy(pane_description(card))))
            => extraction.fetched

\* C16: when the enumeration finds no entry (no selector of scrape_jobs gives
\* a link; find_elements of scrape_jobs_selenium gives no card) the run
\* returns an empty list without raising, quit() has been called on its
\* driver, and no step for an entry was made.
C16_ZeroEntriesReturnEmpty ==
    (pc = "done" /\ enumerated.found = 0 /\ prog \in {"main", "selenium"}) =>
        /\ result = "returned"
        /\ jobs = <<>>
        /\ driver.quit
        /\ origin = <<>> /\ skipped = <<>> /\ delayed = {}
        /\ extraction = NoExtraction

\* C17: between two consecutive entries of a walker the delay between entries
\* is taken, whether the earlier entry was appended or skipped: no entry is
\* begun (its tab opened, its card read) unless the delay was taken after the
\* entry before it.
C17_DelayBetweenEntries ==
    (\/ prog = "main" /\ pc = "open"
     \/ prog = "selenium" /\ pc = "card")
        => (idx > 1 => (idx - 1) \in delayed)

\* the number of entries a run may process: min(max, N)
Cap == Min(enumerated.max, enumerated.found)

\* C18: the records of a walker run are an order-preserving subsequence of the
\* first min(max, N) enumerated entries, for every max >= 0 and N: there are
\* at most min(max, N) records, each made from one of those entries, no entry
\* gives two records, and the records are in enumeration order.
C18_RecordsFollowEnumeration ==
    (prog \in {"main", "selenium"} /\ enumerated.max >= 0) =>
        /\ Len(jobs) <= Cap
        /\ Len(origin) = Len(jobs)
        /\ \A i \in 1..Len(origin) : origin[i] \in 1..Cap
        /\ \A i, j \in 1..Len(origin) : i < j => origin[i] < origin[j]
        /\ prog = "main" =>
              /\ \A i \in 1..Len(jobs) : jobs[i].url = job_links[origin[i]]
              /\ \A i, j \in 1..Len(jobs) : i < j => jobs[i].url # jobs[j].url
        /\ prog = "selenium" =>
              \A i \in 1..Len(jobs) :
                  jobs[i].url \in {card_url(Card(cards[origin[i]])), <<>>}

\* scrape_jobs is over with the first of two entries skipped and the second
\* recorded
C18_Witness ==
    /\ prog = "main" /\ pc = "quit"
    /\ enumerated.found = 2 /\ enumerated.max = DEFAULT_MAX_JOBS
    /\ origin = <<2>>
    /\ Len(jobs) = 1 /\ jobs[1].url = job_links[2]

\* the drivers that were created and on which quit() was never called
ActiveSessions == unreleased + (IF Live(driver) THEN 1 ELSE 0)

\* C19: in scrape_jobs_selenium and enrich_jobs_with_descriptions a new driver
\* is created only after quit() was called on the one before it: in no state
\* are there two drivers that were created and never had quit() called.
C19_OneActiveSession ==
    prog \in {"enrich", "selenium", "scraper_main"} =>
        /\ unreleased = 0
        /\ ActiveSessions <= 1

\* enrich has rotated through both proxies and holds the only session
C19_Witness ==
    /\ prog = "enrich" /\ pc = "store"
    /\ Len(attempts) = 3
    /\ driver.egress = 2 /\ Live(driver)
    /\ ActiveSessions = 1

\* a line that names its scheme: scheme://host:port
HasScheme(q) == contains(q, <<":","/","/">>)

\* one descriptor per non-blank line, in file order: host:port with http://
\* put before it, scheme://host:port as it is
RECURSIVE Descriptors(_, _)
Descriptors(lines, i) ==
    IF i > Len(lines) THEN <<>>
    ELSE LET q == strip(lines[i]) IN
         IF q = <<>> THEN Descriptors(lines, i + 1)
         ELSE <<IF HasScheme(q) THEN q ELSE <<"h","t","t","p",":","/","/">> \o q>>
              \o Descriptors(lines, i + 1)

\* C20: load_proxies returns one descriptor per non-blank line of the file, in
\* file order: a line host:port as http://host:port, a line scheme://host:port
\* unchanged whatever the scheme; a missing or unreadable file gives [].
C20_OneDescriptorPerLine ==
    (prog = "load_proxies" /\ pc = "done") =>
        ret = IF \/ ~arg.exists \/ ~arg.opens
                 \/ \E i \in 1..Len(arg.lines) : arg.lines[i] = Raises
              THEN <<>>
              ELSE Descriptors(arg.lines, 1)

\* C21: every fetch and every page operation of enrich_jobs_with_descriptions
\* and scrape_jobs_selenium is issued on a live driver: after a rotation step
\* that quit the old driver and failed to create the new one, neither the fetch
\* for the next job nor the enumeration or reading of the cards is made on the
\* handle that was quit.
C21_OperationsOnLiveDriver ==
    (\/ prog = "enrich" /\ pc = "fetch"
     \/ prog = "selenium" /\ pc \in {"cards", "card"})
        => Live(driver)

\* the number of times x occurs in seq
Count(seq, x) == Cardinality({i \in 1..Len(seq) : seq[i] = x})

\* C22: every processed entry of scrape_jobs has exactly one outcome: it is
\* appended to the result once or reported as skipped once, never both; a
\* fault after the record was appended (closing the tab, switching back) does
\* not make the entry count as skipped too.
C22_OneOutcomePerEntry ==
    prog = "main" =>
        /\ \A e \in 1..max_jobs : Count(origin, e) + Count(skipped, e) <= 1
        /\ pc \in {"open", "quit"} =>
               \A e \in 1..(idx - 1) : Count(origin, e) + Count(skipped, e) = 1

\* C23: processing a card of scrape_jobs_selenium leaves the session on the
\* search-results view: after a card whose click failed and whose url the
\* walker navigated to, the cards enumerated earlier still resolve, so the
\* fields of every later record are those of its own card.
C23_FallbackKeepsCardsResolvable ==
    prog = "selenium" =>
        /\ pc = "card" => on_results
        /\ pc = "sleep" =>
               LET card == Card(cards[idx]) IN
               /\ LastRecord.title = card_title(card).value
               /\ LastRecord.company = text_or_empty(card.company)
               /\ LastRecord.location = text_or_empty(card.location)
               /\ LastRecord.salary = text_or_empty(card.salary)
               /\ LastRecord.summary = text_or_empty(card.summary)
               /\ LastRecord.url = card_url(card)

\* C24: enrich_jobs_with_descriptions returns the jobs it was given, in the
\* same order, each with its description set; no other field of a job is
\* changed and no job is added or removed, on the Selenium path and on the
\* requests path alike.
C24_EnrichChangesOnlyDescription ==
    prog = "enrich" =>
        /\ Len(jobs) = Len(arg)
        /\ \A i \in 1..Len(jobs) :
               jobs[i] = [arg[i] EXCEPT !.description = jobs[i].description]
        /\ (pc = "done" /\ result = "returned") =>
               \A i \in 1..Len(jobs) : jobs[i].description # Absent

\* the requests path has returned two jobs, both with a description
C24_Witness ==
    /\ prog = "enrich" /\ pc = "done" /\ result = "returned"
    /\ ~SELENIUM_AVAILABLE
    /\ Len(jobs) = 2
    /\ jobs[1].title = arg[1].title /\ jobs[2].url = arg[2].url
    /\ jobs[1].description # Absent /\ jobs[2].description # Absent

====
